---- MODULE Spec2Model ----
(***************************************************************************)
(* Fixed-point trigonometric kernel of novasvg (plutovg's copy of the      *)
(* FreeType fttrigon/ftcalc routines): PVG_FT_MulFix, PVG_FT_MulDiv,       *)
(* PVG_FT_DivFix, the CORDIC engines and the public angle operations.      *)
(*                                                                         *)
(* Scalars (PVG_FT_Long, PVG_FT_Fixed, PVG_FT_Pos, PVG_FT_Angle) are       *)
(* signed 32-bit two's-complement integers.  The 64-bit intermediates of   *)
(* the C code (PVG_FT_Int64, PVG_FT_UInt64) are sequences of 8 bytes,      *)
(* least significant first, because the model checker's own integers are   *)
(* 32 bits wide.                                                           *)
(*                                                                         *)
(* Negating -2^31 and overflowing a signed addition are undefined in C.    *)
(* The variable build selects what the compiled kernel does there:         *)
(*   "wrap"      the result wraps modulo 2^32 (gcc -O0, gcc -fwrapv);      *)
(*   "optimized" the result wraps, but a test x > 0 that follows           *)
(*               PVG_FT_MOVE_SIGN(x) is compiled as x != 0 (gcc -O2);      *)
(*   "trap"      the call aborts (gcc -ftrapv).                            *)
(*                                                                         *)
(* The variables pc, op, args, ret and calls describe one caller making    *)
(* one call at a time, each call taken as a whole.  The variable thread    *)
(* describes several threads that run PVG_FT_Vector_Rotate and             *)
(* PVG_FT_Vector_Polarize step by step, one loop iteration at a time, and  *)
(* arctan_table is the static table ft_trig_arctan_table they share.       *)
(***************************************************************************)
EXTENDS Integers, Sequences, FiniteSets

VARIABLES build, pc, op, args, ret, calls, thread, arctan_table

vars == <<build, pc, op, args, ret, calls, thread, arctan_table>>

Builds == {"wrap", "optimized", "trap"}

(***************************************************************************)
(* Integer types.                                                          *)
(***************************************************************************)
INT_MAX == 2147483647
INT_MIN == -2147483647 - 1

\* 2^k for 0 <= k <= 30.
Pow2(k) ==
    <<1, 2, 4, 8, 16, 32, 64, 128, 256, 512, 1024, 2048, 4096, 8192, 16384,
      32768, 65536, 131072, 262144, 524288, 1048576, 2097152, 4194304,
      8388608, 16777216, 33554432, 67108864, 134217728, 268435456,
      536870912, 1073741824>>[k + 1]

\* Negation of a signed 32-bit value in a build that does not trap:
\* -INT_MIN overflows and leaves INT_MIN.
Neg32(x) == IF x = INT_MIN THEN INT_MIN ELSE -x

\* Byte i (0 = least significant) of the two's-complement pattern of the
\* signed 32-bit value n, sign-extended to 64 bits.
Byte(n, i) ==
    IF i >= 4 THEN (IF n < 0 THEN 255 ELSE 0)
    ELSE (n \div Pow2(8 * i)) % 256

\* (PVG_FT_Int64)n, (PVG_FT_UInt64)n: conversion of a signed 32-bit value
\* to 64 bits.
SExt64(n) ==
    <<Byte(n, 0), Byte(n, 1), Byte(n, 2), Byte(n, 3),
      Byte(n, 4), Byte(n, 5), Byte(n, 6), Byte(n, 7)>>

\* The cast (PVG_FT_Long)v of a 64-bit value: its low 32 bits, read as a
\* signed value.
ToLong(v) ==
    LET hi == IF v[4] >= 128 THEN v[4] - 256 ELSE v[4]
    IN  hi * 16777216 + v[3] * 65536 + v[2] * 256 + v[1]

IsNeg64(v) == v[8] >= 128

\* Column k (1..8) of the schoolbook product of two 8-byte values.
MulTerm(A, B, k, i) == IF i > k THEN 0 ELSE A[i] * B[k + 1 - i]

MulColumn(A, B, k) ==
    MulTerm(A, B, k, 1) + MulTerm(A, B, k, 2) + MulTerm(A, B, k, 3)
    + MulTerm(A, B, k, 4) + MulTerm(A, B, k, 5) + MulTerm(A, B, k, 6)
    + MulTerm(A, B, k, 7) + MulTerm(A, B, k, 8)

\* 64-bit multiplication, modulo 2^64 (the same bits signed or unsigned).
Mul64(A, B) ==
    LET t1 == MulColumn(A, B, 1)
        t2 == MulColumn(A, B, 2) + t1 \div 256
        t3 == MulColumn(A, B, 3) + t2 \div 256
        t4 == MulColumn(A, B, 4) + t3 \div 256
        t5 == MulColumn(A, B, 5) + t4 \div 256
        t6 == MulColumn(A, B, 6) + t5 \div 256
        t7 == MulColumn(A, B, 7) + t6 \div 256
        t8 == MulColumn(A, B, 8) + t7 \div 256
    IN  <<t1 % 256, t2 % 256, t3 % 256, t4 % 256,
          t5 % 256, t6 % 256, t7 % 256, t8 % 256>>

\* 64-bit addition, modulo 2^64.
Add64(A, B) ==
    LET t1 == A[1] + B[1]
        t2 == A[2] + B[2] + t1 \div 256
        t3 == A[3] + B[3] + t2 \div 256
        t4 == A[4] + B[4] + t3 \div 256
        t5 == A[5] + B[5] + t4 \div 256
        t6 == A[6] + B[6] + t5 \div 256
        t7 == A[7] + B[7] + t6 \div 256
        t8 == A[8] + B[8] + t7 \div 256
    IN  <<t1 % 256, t2 % 256, t3 % 256, t4 % 256,
          t5 % 256, t6 % 256, t7 % 256, t8 % 256>>

\* Two's-complement negation of a 64-bit value.
Neg64(A) ==
    Add64(<<255 - A[1], 255 - A[2], 255 - A[3], 255 - A[4],
            255 - A[5], 255 - A[6], 255 - A[7], 255 - A[8]>>, SExt64(1))

\* v >> 16 on a signed 64-bit value (arithmetic shift).
Sar64By16(v) ==
    LET f == IF IsNeg64(v) THEN 255 ELSE 0
    IN  <<v[3], v[4], v[5], v[6], v[7], v[8], f, f>>

\* v >> 32 on a signed 64-bit value.
Sar64By32(v) ==
    LET f == IF IsNeg64(v) THEN 255 ELSE 0
    IN  <<v[5], v[6], v[7], v[8], f, f, f, f>>

\* v << 16 on a 64-bit value, modulo 2^64.
Shl64By16(v) == <<0, 0, v[1], v[2], v[3], v[4], v[5], v[6]>>

\* One bit of long division by d (0 < d <= INT_MAX): the remainder r < d
\* is doubled, the dividend's next bit added, and d subtracted if it fits.
\* 2r + bit is compared with d without leaving 32 bits.
DivBit(r, bit, d) ==
    IF r >= d - r - bit THEN <<1, r - (d - r - bit)>> ELSE <<0, 2 * r + bit>>

\* The bits of one dividend byte in long division by d, from bit st[3]
\* down to bit 0; st = <<quotient bits so far, remainder, bit index>>.
RECURSIVE DivByte(_, _, _)
DivByte(st, byte, d) ==
    IF st[3] < 0 THEN st
    ELSE LET s == DivBit(st[2], (byte \div Pow2(st[3])) % 2, d)
         IN  DivByte(<<2 * st[1] + s[1], s[2], st[3] - 1>>, byte, d)

\* The bytes of the dividend A in long division by d, from byte st[3] down
\* to byte 1; st = <<quotient bytes so far (least significant first),
\* remainder, byte index>>.
RECURSIVE DivBytes(_, _, _)
DivBytes(st, A, d) ==
    IF st[3] < 1 THEN st
    ELSE LET s == DivByte(<<0, st[2], 7>>, A[st[3]], d)
         IN  DivBytes(<<(<<s[1]>>) \o st[1], s[2], st[3] - 1>>, A, d)

\* Unsigned 64-bit long division by a divisor 0 < d <= INT_MAX.
LongDivU64(A, d) == DivBytes(<<(<<>>), 0, 8>>, A, d)[1]

\* A / (PVG_FT_UInt64)d for a signed 32-bit d # 0 that is positive or
\* INT_MIN.  INT_MIN converts to 2^64 - 2^31, and the quotient is 0 or 1.
DivU64(A, d) ==
    IF d = INT_MIN
    THEN IF A[8] = 255 /\ A[7] = 255 /\ A[6] = 255 /\ A[5] = 255 /\ A[4] >= 128
         THEN SExt64(1) ELSE SExt64(0)
    ELSE LongDivU64(A, d)

\* |A| / 2^31 for a signed 64-bit A with |A| < 2^63.
DivMagnitudeBy2Pow31(A) ==
    LET M == IF IsNeg64(A) THEN Neg64(A) ELSE A
        D == Add64(M, M)
    IN  <<D[5], D[6], D[7], D[8], 0, 0, 0, 0>>

\* Signed 64-bit division A / d (C truncates toward zero) for a signed
\* 32-bit d # 0 that is positive or INT_MIN.
DivS64(A, d) ==
    IF d = INT_MIN
    THEN IF IsNeg64(A) THEN DivMagnitudeBy2Pow31(A)
         ELSE Neg64(DivMagnitudeBy2Pow31(A))
    ELSE IF IsNeg64(A) THEN Neg64(LongDivU64(Neg64(A), d))
    ELSE LongDivU64(A, d)

(***************************************************************************)
(* Fixed-point arithmetic primitives.                                      *)
(***************************************************************************)

\* PVG_FT_MOVE_SIGN(x, s): <<x, s>> after the macro.
PVG_FT_MOVE_SIGN(x, s) == IF x < 0 THEN <<Neg32(x), -s>> ELSE <<x, s>>

PVG_FT_ABS(a) == IF a < 0 THEN Neg32(a) ELSE a

\* The test x > 0 on a value PVG_FT_MOVE_SIGN has made non-negative.  The
\* optimized build takes -x of a negative x to be positive, so it tests
\* x # 0, and INT_MIN (the overflowed negation) passes.
PositiveAfterMoveSign(x) == x > 0 \/ (build = "optimized" /\ x = INT_MIN)

\* PVG_FT_MulFix without the rounding term 0x8000: a product that is
\* truncated, not rounded.
MulFixPartsTruncating(a0, b0) ==
    LET ma == PVG_FT_MOVE_SIGN(a0, 1)
        mb == PVG_FT_MOVE_SIGN(b0, ma[2])
    IN  [c |-> ToLong(Sar64By16(Mul64(SExt64(ma[1]), SExt64(mb[1])))),
         s |-> mb[2]]

\* The magnitude c and the sign s of PVG_FT_MulFix before its return.
MulFixParts(a0, b0) ==
    LET ma == PVG_FT_MOVE_SIGN(a0, 1)
        mb == PVG_FT_MOVE_SIGN(b0, ma[2])
        a  == ma[1]
        b  == mb[1]
    IN  [c |-> ToLong(Sar64By16(Add64(Mul64(SExt64(a), SExt64(b)),
                                      SExt64(32768)))),
         s |-> mb[2]]

PVG_FT_MulFix(a0, b0) ==
    LET p == MulFixParts(a0, b0)
    IN  IF p.s > 0 THEN p.c ELSE Neg32(p.c)

\* PVG_FT_MulFix(a0, b0) negates -2^31.
MulFixOverflows(a0, b0) ==
    \/ a0 = INT_MIN
    \/ b0 = INT_MIN
    \/ LET p == MulFixParts(a0, b0) IN ~(p.s > 0) /\ p.c = INT_MIN

\* PVG_FT_MulDiv without PVG_FT_MOVE_SIGN(b, s): the sign of b is lost.
MulDivPartsDroppingSignOfB(a0, b0, c0) ==
    LET ma == PVG_FT_MOVE_SIGN(a0, 1)
        mc == PVG_FT_MOVE_SIGN(c0, ma[2])
        a  == ma[1]
        b  == PVG_FT_ABS(b0)
        c  == mc[1]
    IN  [d |-> IF PositiveAfterMoveSign(c)
               THEN ToLong(DivS64(Add64(Mul64(SExt64(a), SExt64(b)),
                                        SExt64(c \div 2)), c))
               ELSE INT_MAX,
         s |-> mc[2]]

\* The magnitude d and the sign s of PVG_FT_MulDiv before its return.
MulDivParts(a0, b0, c0) ==
    LET ma == PVG_FT_MOVE_SIGN(a0, 1)
        mb == PVG_FT_MOVE_SIGN(b0, ma[2])
        mc == PVG_FT_MOVE_SIGN(c0, mb[2])
        a  == ma[1]
        b  == mb[1]
        c  == mc[1]
    IN  [d |-> IF PositiveAfterMoveSign(c)
               THEN ToLong(DivS64(Add64(Mul64(SExt64(a), SExt64(b)),
                                        SExt64(c \div 2)), c))
               ELSE INT_MAX,
         s |-> mc[2]]

PVG_FT_MulDiv(a0, b0, c0) ==
    LET p == MulDivParts(a0, b0, c0)
    IN  IF p.s > 0 THEN p.d ELSE Neg32(p.d)

\* PVG_FT_MulDiv(a0, b0, c0) negates -2^31.
MulDivOverflows(a0, b0, c0) ==
    \/ a0 = INT_MIN
    \/ b0 = INT_MIN
    \/ c0 = INT_MIN
    \/ LET p == MulDivParts(a0, b0, c0) IN ~(p.s > 0) /\ p.d = INT_MIN

\* The magnitude q and the sign s of PVG_FT_DivFix before its return.
DivFixParts(a0, b0) ==
    LET ma == PVG_FT_MOVE_SIGN(a0, 1)
        mb == PVG_FT_MOVE_SIGN(b0, ma[2])
        a  == ma[1]
        b  == mb[1]
    IN  [q |-> IF PositiveAfterMoveSign(b)
               THEN ToLong(DivU64(Add64(Shl64By16(SExt64(a)),
                                        SExt64(b \div 2)), b))
               ELSE INT_MAX,
         s |-> mb[2]]

PVG_FT_DivFix(a0, b0) ==
    LET p == DivFixParts(a0, b0)
    IN  IF p.s < 0 THEN Neg32(p.q) ELSE p.q

\* PVG_FT_DivFix(a0, b0) negates -2^31.
DivFixOverflows(a0, b0) ==
    \/ a0 = INT_MIN
    \/ b0 = INT_MIN
    \/ LET p == DivFixParts(a0, b0) IN p.s < 0 /\ p.q = INT_MIN

(***************************************************************************)
(* CORDIC engines.                                                         *)
(***************************************************************************)

\* x + y and x - y on signed 32-bit values, wrapping at the width.
Add32(x, y) ==
    IF x > 0 /\ y > 0 /\ x > INT_MAX - y THEN (x + INT_MIN) + (y + INT_MIN)
    ELSE IF x < 0 /\ y < 0 /\ x < INT_MIN - y THEN (x - INT_MIN) + (y - INT_MIN)
    ELSE x + y

Sub32(x, y) ==
    IF y = INT_MIN THEN (IF x < 0 THEN (x - INT_MIN) ELSE x + INT_MIN)
    ELSE Add32(x, -y)

\* x >> n on a signed value (arithmetic shift).
Sar(x, n) == x \div Pow2(n)

PVG_FT_ANGLE_PI  == 180 * 65536
PVG_FT_ANGLE_2PI == PVG_FT_ANGLE_PI * 2
PVG_FT_ANGLE_PI2 == PVG_FT_ANGLE_PI \div 2
PVG_FT_ANGLE_PI4 == PVG_FT_ANGLE_PI \div 4

\* PVG_FT_TRIG_SCALE >> 8, the start vector of PVG_FT_Cos and PVG_FT_Tan
\* (PVG_FT_TRIG_SCALE = 0xDBD95B16).
PVG_FT_TRIG_SCALE_SHR8 == 14408027

PVG_FT_TRIG_SAFE_MSB == 29

PVG_FT_TRIG_MAX_ITERS == 23

\* A table whose first entry is twice the arctangent of 1/2.
ArctanTableDoubledHead ==
    <<3481934, 919879, 466945, 234379, 117304, 58666, 29335, 14668,
      7334, 3667, 1833, 917, 458, 229, 115, 57,
      29, 14, 7, 4, 2, 1>>

ft_trig_arctan_table ==
    <<1740967, 919879, 466945, 234379, 117304, 58666, 29335, 14668,
      7334, 3667, 1833, 917, 458, 229, 115, 57,
      29, 14, 7, 4, 2, 1>>

PVG_FT_PAD_FLOOR(x, n) == x - (x % n)
PVG_FT_PAD_ROUND(x, n) == PVG_FT_PAD_FLOOR(x + (n \div 2), n)

\* x | y on the low n bits of two non-negative values, n a power of two.
RECURSIVE BitOrLow(_, _, _)
BitOrLow(x, y, n) ==
    IF n = 1 THEN (IF x % 2 = 1 \/ y % 2 = 1 THEN 1 ELSE 0)
    ELSE LET h == n \div 2
         IN  BitOrLow(x % Pow2(h), y % Pow2(h), h)
             + Pow2(h) * BitOrLow((x \div Pow2(h)) % Pow2(h),
                                  (y \div Pow2(h)) % Pow2(h), h)

\* x | y for the values PVG_FT_ABS yields: non-negative, or INT_MIN (bit
\* 31 alone) when ABS overflowed.
BitOr(x, y) ==
    IF x < 0 THEN (IF y < 0 THEN x ELSE x + y)
    ELSE IF y < 0 THEN y + x
    ELSE BitOrLow(x % 65536, y % 65536, 16)
         + 65536 * BitOrLow(x \div 65536, y \div 65536, 16)

\* PVG_FT_MSB(z) = 31 - clz((unsigned int)z), z # 0.
PVG_FT_MSB(z) ==
    IF z < 0 THEN 31
    ELSE CHOOSE k \in 0..30 : Pow2(k) <= z /\ (k = 30 \/ z < Pow2(k + 1))

PrenormUnscaled(vec) == [x |-> vec[1], y |-> vec[2], shift |-> 0]

\* ft_trig_prenorm(vec): the scaled vector and the shift returned.
ft_trig_prenorm(vec) ==
    LET x == vec[1]
        y == vec[2]
        msb == PVG_FT_MSB(BitOr(PVG_FT_ABS(x), PVG_FT_ABS(y)))
    IN  IF msb <= PVG_FT_TRIG_SAFE_MSB
        THEN LET shift == PVG_FT_TRIG_SAFE_MSB - msb
             IN  [x |-> x * Pow2(shift), y |-> y * Pow2(shift), shift |-> shift]
        ELSE LET shift == msb - PVG_FT_TRIG_SAFE_MSB
             IN  [x |-> Sar(x, shift), y |-> Sar(y, shift), shift |-> -shift]

\* PVG_FT_TRIG_SCALE = 0xDBD95B16 as a 64-bit value.
PVG_FT_TRIG_SCALE == <<22, 91, 217, 219, 0, 0, 0, 0>>

DownscaleIdentity(val) == val

\* ft_trig_downscale(val): val times the CORDIC shrink factor.
ft_trig_downscale(val) ==
    LET a == PVG_FT_ABS(val)
        v == Add64(Mul64(SExt64(a), PVG_FT_TRIG_SCALE),
                   <<0, 0, 0, 0, 1, 0, 0, 0>>)
        r == ToLong(Sar64By32(v))
    IN  IF val >= 0 THEN r ELSE Neg32(r)

\* (PVG_FT_ULong)x << 1, cast back to a signed 32-bit value.
Double32(x) ==
    IF x >= 1073741824 THEN (x - 1073741824) * 2 + INT_MIN
    ELSE IF x < -1073741824 THEN ((x + 1073741824) * 2 + INT_MAX) + 1
    ELSE 2 * x

\* (PVG_FT_ULong)x << n, cast back to a signed 32-bit value.
RECURSIVE Shl32(_, _)
Shl32(x, n) == IF n = 0 THEN x ELSE Shl32(Double32(x), n - 1)

\* The pseudorotation loop of ft_trig_pseudo_rotate, from iteration i on;
\* st = <<x, y, theta>>.
RECURSIVE RotateLoop(_, _, _)
RotateLoop(st, i, b) ==
    IF ~(i < PVG_FT_TRIG_MAX_ITERS) THEN <<st[1], st[2]>>
    ELSE LET v1 == Sar(Add32(st[2], b), i)
             v2 == Sar(Add32(st[1], b), i)
         IN  IF st[3] < 0
             THEN RotateLoop(<<Add32(st[1], v1), Sub32(st[2], v2),
                               st[3] + ft_trig_arctan_table[i]>>, i + 1, 2 * b)
             ELSE RotateLoop(<<Sub32(st[1], v1), Add32(st[2], v2),
                               st[3] - ft_trig_arctan_table[i]>>, i + 1, 2 * b)

\* The reduction of theta without the quarter turn of the vector.
RECURSIVE RotateReducePosAngleOnly(_)
RotateReducePosAngleOnly(st) ==
    IF st[3] > PVG_FT_ANGLE_PI4
    THEN RotateReducePosAngleOnly(<<st[1], st[2], st[3] - PVG_FT_ANGLE_PI2>>)
    ELSE st

\* while (theta > PVG_FT_ANGLE_PI4) { quarter turn; theta -= PI2 }
RECURSIVE RotateReducePos(_)
RotateReducePos(st) ==
    IF st[3] > PVG_FT_ANGLE_PI4
    THEN RotateReducePos(<<Neg32(st[2]), st[1], st[3] - PVG_FT_ANGLE_PI2>>)
    ELSE st

\* while (theta < -PVG_FT_ANGLE_PI4) { quarter turn; theta += PI2 }
RECURSIVE RotateReduceNeg(_)
RotateReduceNeg(st) ==
    IF st[3] < -PVG_FT_ANGLE_PI4
    THEN RotateReduceNeg(<<st[2], Neg32(st[1]), st[3] + PVG_FT_ANGLE_PI2>>)
    ELSE st

\* ft_trig_pseudo_rotate(vec, theta): the rotated vector <<x, y>>.
ft_trig_pseudo_rotate(vec, theta) ==
    RotateLoop(RotateReducePos(RotateReduceNeg(<<vec[1], vec[2], theta>>)), 1, 1)

\* The octant reduction with the quarter-turn angles exchanged.
PolarizeOctantExchanged(x, y) ==
    IF y > x
    THEN IF y > Neg32(x)
         THEN <<y, Neg32(x), -PVG_FT_ANGLE_PI2>>
         ELSE <<Neg32(x), Neg32(y),
                IF y > 0 THEN PVG_FT_ANGLE_PI ELSE -PVG_FT_ANGLE_PI>>
    ELSE IF y < Neg32(x)
         THEN <<Neg32(y), x, PVG_FT_ANGLE_PI2>>
         ELSE <<x, y, 0>>

\* The octant reduction of ft_trig_pseudo_polarize: <<x, y, theta>>.
PolarizeOctant(x, y) ==
    IF y > x
    THEN IF y > Neg32(x)
         THEN <<y, Neg32(x), PVG_FT_ANGLE_PI2>>
         ELSE <<Neg32(x), Neg32(y),
                IF y > 0 THEN PVG_FT_ANGLE_PI ELSE -PVG_FT_ANGLE_PI>>
    ELSE IF y < Neg32(x)
         THEN <<Neg32(y), x, -PVG_FT_ANGLE_PI2>>
         ELSE <<x, y, 0>>

\* The pseudorotation loop of ft_trig_pseudo_polarize, from iteration i
\* on; st = <<x, y, theta>>.
RECURSIVE PolarizeLoop(_, _, _)
PolarizeLoop(st, i, b) ==
    IF ~(i < PVG_FT_TRIG_MAX_ITERS) THEN st
    ELSE LET v1 == Sar(Add32(st[2], b), i)
             v2 == Sar(Add32(st[1], b), i)
         IN  IF st[2] > 0
             THEN PolarizeLoop(<<Add32(st[1], v1), Sub32(st[2], v2),
                                 st[3] + ft_trig_arctan_table[i]>>, i + 1, 2 * b)
             ELSE PolarizeLoop(<<Sub32(st[1], v1), Add32(st[2], v2),
                                 st[3] - ft_trig_arctan_table[i]>>, i + 1, 2 * b)

\* A rounding that pads theta down to a multiple of 32 instead.
PolarizeRoundDown(theta) == PVG_FT_PAD_FLOOR(theta, 32)

\* The rounding of theta that ends ft_trig_pseudo_polarize.
PolarizeRound(theta) ==
    IF theta >= 0 THEN PVG_FT_PAD_ROUND(theta, 32)
    ELSE -PVG_FT_PAD_ROUND(-theta, 32)

\* ft_trig_pseudo_polarize(vec): <<x, theta>>, the new vec.x and vec.y.
ft_trig_pseudo_polarize(vec) ==
    LET o == PolarizeOctant(vec[1], vec[2])
        r == PolarizeLoop(o, 1, 1)
    IN  <<r[1], PolarizeRound(r[3])>>

(***************************************************************************)
(* Public trigonometric operations.                                        *)
(***************************************************************************)
PVG_FT_Cos(angle) ==
    LET v == ft_trig_pseudo_rotate(<<PVG_FT_TRIG_SCALE_SHR8, 0>>, angle)
    IN  Sar(Add32(v[1], 128), 8)

PVG_FT_Sin(angle) == PVG_FT_Cos(Sub32(PVG_FT_ANGLE_PI2, angle))

\* A tangent taken as the ratio of the rounded sine and cosine instead.
TanOfRounded(angle) ==
    LET v == ft_trig_pseudo_rotate(<<PVG_FT_TRIG_SCALE_SHR8, 0>>, angle)
    IN  PVG_FT_DivFix(Sar(Add32(v[2], 128), 8), Sar(Add32(v[1], 128), 8))

PVG_FT_Tan(angle) ==
    LET v == ft_trig_pseudo_rotate(<<PVG_FT_TRIG_SCALE_SHR8, 0>>, angle)
    IN  PVG_FT_DivFix(v[2], v[1])

\* PVG_FT_Vector_Unit(vec, angle): the vector stored in *vec.
PVG_FT_Vector_Unit(angle) ==
    LET v == ft_trig_pseudo_rotate(<<PVG_FT_TRIG_SCALE_SHR8, 0>>, angle)
    IN  <<Sar(Add32(v[1], 128), 8), Sar(Add32(v[2], 128), 8)>>

\* The end of PVG_FT_Vector_Rotate: the downscaled vector v is brought
\* back from the shift of ft_trig_prenorm.
RotateUnshift(v, shift) ==
    IF shift > 0
    THEN LET half == Pow2(shift - 1)
         IN  <<Sar(Sub32(Add32(v[1], half), IF v[1] < 0 THEN 1 ELSE 0), shift),
               Sar(Sub32(Add32(v[2], half), IF v[2] < 0 THEN 1 ELSE 0), shift)>>
    ELSE <<Shl32(v[1], -shift), Shl32(v[2], -shift)>>

DownscaleSkipped(v) == v

\* ft_trig_downscale applied to both coordinates.
DownscaleBoth(v) == <<ft_trig_downscale(v[1]), ft_trig_downscale(v[2])>>

\* PVG_FT_Vector_Rotate(vec, angle): the vector left in *vec.
PVG_FT_Vector_Rotate(vec, angle) ==
    IF vec[1] = 0 /\ vec[2] = 0 THEN vec
    ELSE LET n == ft_trig_prenorm(vec)
         IN  RotateUnshift(
                 DownscaleBoth(ft_trig_pseudo_rotate(<<n.x, n.y>>, angle)),
                 n.shift)

LengthKeptShifted(x, shift) == x

\* The end of PVG_FT_Vector_Length: the downscaled length x is brought
\* back from the shift of ft_trig_prenorm.
LengthUnshift(x, shift) ==
    IF shift > 0 THEN Sar(Add32(x, Pow2(shift - 1)), shift)
    ELSE Shl32(x, -shift)

\* PVG_FT_Vector_Length(vec).
PVG_FT_Vector_Length(vec) ==
    IF vec[1] = 0 THEN PVG_FT_ABS(vec[2])
    ELSE IF vec[2] = 0 THEN PVG_FT_ABS(vec[1])
    ELSE LET n == ft_trig_prenorm(vec)
         IN  LengthUnshift(
                 ft_trig_downscale(ft_trig_pseudo_polarize(<<n.x, n.y>>)[1]),
                 n.shift)

\* The internal routines PVG_FT_Vector_Length runs, in order.
VectorLengthCalls(vec) ==
    IF vec[1] = 0 \/ vec[2] = 0 THEN <<>>
    ELSE <<"ft_trig_prenorm", "ft_trig_pseudo_polarize", "ft_trig_downscale">>

\* The end of PVG_FT_Vector_Polarize: <<*length, *angle>> from the
\* polarized vector p = <<x, theta>>.
PolarizeOutputs(p, shift) ==
    LET x == ft_trig_downscale(p[1])
    IN  <<IF shift >= 0 THEN Sar(x, shift) ELSE Shl32(x, -shift), p[2]>>

\* PVG_FT_Vector_Polarize(vec, length, angle): the contents of *length
\* and *angle after the call, out being their contents before it.
PVG_FT_Vector_Polarize(vec, out) ==
    IF vec[1] = 0 /\ vec[2] = 0 THEN out
    ELSE LET n == ft_trig_prenorm(vec)
         IN  PolarizeOutputs(ft_trig_pseudo_polarize(<<n.x, n.y>>), n.shift)

\* PVG_FT_Vector_Length(vec) negates -2^31, taking the absolute value of
\* the only non-zero coordinate.
VectorLengthOverflows(vec) ==
    \/ vec[1] = 0 /\ vec[2] = INT_MIN
    \/ vec[1] # 0 /\ vec[2] = 0 /\ vec[1] = INT_MIN

\* PVG_FT_Vector_From_Polar(vec, length, angle): the vector stored in *vec.
PVG_FT_Vector_From_Polar(length, angle) ==
    PVG_FT_Vector_Rotate(<<length, 0>>, angle)

\* PVG_FT_Tan(angle) negates -2^31, in its call of PVG_FT_DivFix.
TanOverflows(angle) ==
    LET v == ft_trig_pseudo_rotate(<<PVG_FT_TRIG_SCALE_SHR8, 0>>, angle)
    IN  DivFixOverflows(v[2], v[1])

PVG_FT_Atan2(dx, dy) ==
    IF dx = 0 /\ dy = 0 THEN 0
    ELSE LET n == ft_trig_prenorm(<<dx, dy>>)
         IN  ft_trig_pseudo_polarize(<<n.x, n.y>>)[2]

\* The internal routines PVG_FT_Atan2 runs, in order.
Atan2Calls(dx, dy) ==
    IF dx = 0 /\ dy = 0 THEN <<>>
    ELSE <<"ft_trig_prenorm", "ft_trig_pseudo_polarize">>

\* The first loop of PVG_FT_Angle_Diff with < in place of <=.
RECURSIVE AngleDiffUpStrict(_)
AngleDiffUpStrict(delta) ==
    IF delta < -PVG_FT_ANGLE_PI THEN AngleDiffUpStrict(delta + PVG_FT_ANGLE_2PI)
    ELSE delta

\* while (delta <= -PVG_FT_ANGLE_PI) delta += PVG_FT_ANGLE_2PI
RECURSIVE AngleDiffUp(_)
AngleDiffUp(delta) ==
    IF delta <= -PVG_FT_ANGLE_PI THEN AngleDiffUp(delta + PVG_FT_ANGLE_2PI)
    ELSE delta

\* while (delta > PVG_FT_ANGLE_PI) delta -= PVG_FT_ANGLE_2PI
RECURSIVE AngleDiffDown(_)
AngleDiffDown(delta) ==
    IF delta > PVG_FT_ANGLE_PI THEN AngleDiffDown(delta - PVG_FT_ANGLE_2PI)
    ELSE delta

PVG_FT_Angle_Diff(angle1, angle2) ==
    AngleDiffDown(AngleDiffUp(Sub32(angle2, angle1)))

\* angle2 - angle1 overflows in PVG_FT_Angle_Diff.
AngleDiffOverflows(angle1, angle2) ==
    IF angle1 >= 0 THEN angle2 < INT_MIN + angle1 ELSE angle2 > INT_MAX + angle1

(***************************************************************************)
(* The caller: one action per public operation.                            *)
(***************************************************************************)
MaxPow == 29

Scalars ==
    {0, 1, -1, 2, -3, 32767, 32768, -32768, 65535, 65536, -65536, 65537,
     98304, -98304, 131072, -131072, 3037000, 46341 * 46340,
     1073741824, -1073741824, INT_MAX, -INT_MAX, INT_MIN}
    \cup {Pow2(k) : k \in {MaxPow - 6, MaxPow}}

\* Operands and divisors of PVG_FT_MulDiv.
Factors == {0, 1, -1, 2, -3, 65536, -98304, INT_MAX, -INT_MAX, INT_MIN}
Divisors == {0, 3, -65536, INT_MIN}

\* Angles: a grid over [-720, 720] degrees and the octant boundaries.
NumAngleSteps == 360
AngleStride == 262147

Angles ==
    {-720 * 65536 + i * AngleStride : i \in 0..NumAngleSteps}
    \cup {k * PVG_FT_ANGLE_PI4 + e : k \in -16..16, e \in {-1, 0, 1}}
    \cup {60 * 65536, -150 * 65536}

\* Operands of PVG_FT_Angle_Diff.
DiffAngles ==
    {k * PVG_FT_ANGLE_PI2 + e : k \in -5..5, e \in {0, 1}}
    \cup {12345678, -98765432, 200000000, -200000000,
          2000000000, -2000000000, INT_MAX, INT_MIN}

\* Pairs of operands whose difference, as the subtraction leaves it, is
\* within MaxDiffTurns full turns.
MaxDiffTurns == 16

WithinTurns(angle1, angle2) ==
    LET delta == Sub32(angle2, angle1)
    IN  /\ delta <= MaxDiffTurns * PVG_FT_ANGLE_2PI
        /\ delta >= -(MaxDiffTurns * PVG_FT_ANGLE_2PI)

\* Vector coordinates.
Coords ==
    {0, 1, -1, 2, 65536, -65536, 3 * 65536, -4 * 65536, 12345, -54321,
     Pow2(MaxPow), -Pow2(MaxPow), INT_MAX, -INT_MAX}

\* The vectors passed to the vector operations.
VectorCoords == Coords \cup {7, -7, -1500000000}
Vectors == {<<x, y>> : x \in VectorCoords, y \in VectorCoords}

\* The scale factors k of the 3-4-5 triangles passed to PVG_FT_Vector_Length.
MaxTriangleScale == 6553
TriangleScales ==
    {k \in (1..20) \cup {100, 1000, 4096, 5000}
                    \cup ((MaxTriangleScale - 2)..MaxTriangleScale) :
        5 * k <= INT_MAX \div 65536}

\* The vectors passed to PVG_FT_Vector_Length.
LengthVectors ==
    Vectors \cup {<<0, INT_MIN>>, <<INT_MIN, 0>>}
            \cup {<<3 * k * 65536, 4 * k * 65536>> : k \in TriangleScales}

\* The angles passed to PVG_FT_Vector_Rotate.
RotateAngles ==
    {0, 1, PVG_FT_ANGLE_PI2, -PVG_FT_ANGLE_PI2, PVG_FT_ANGLE_PI4,
     PVG_FT_ANGLE_PI, 30 * 65536, -60 * 65536, 370 * 65536, -1234567}

\* The contents of the locations *length and *angle before
\* PVG_FT_Vector_Polarize is called.
PriorOutputs == {<<0, 0>>, <<12345, -777>>, <<-1, PVG_FT_ANGLE_PI2>>}

\* The lengths passed to PVG_FT_Vector_From_Polar.
Lengths == {0, 1, 9, 65536, -65536, 5 * 65536, Pow2(MaxPow), INT_MAX}

\* The threads that call the kernel concurrently.
Threads == {"t1", "t2"}

\* A thread outside any call.  vec, out = <<length, angle>> are the
\* locations the thread passes to the kernel and ret is the value the call
\* returns; x, y, theta, shift, i, b and
\* arctanptr are the locals of the call in progress; turns counts the
\* quarter turns applied by the reduction loops of ft_trig_pseudo_rotate
\* and log records, for each loop iteration, the shift and the table index
\* it used.
IdleThread ==
    [pc |-> "idle", op |-> "none", args |-> <<>>, vec |-> <<0, 0>>,
     out |-> <<0, 0>>, x |-> 0, y |-> 0, theta |-> 0, shift |-> 0,
     i |-> 0, b |-> 0, arctanptr |-> 0, turns |-> 0, log |-> <<>>,
     ret |-> 0]

\* The vectors, angles and prior output contents of the threads' calls.
EngineVectors == {<<0, 0>>, <<65536, 0>>, <<-54321, 7>>}
EngineAngles == {PVG_FT_ANGLE_PI2, -60 * 65536, 200 * 65536 + 1}
EnginePriorOutputs == {<<12345, -777>>}

Init ==
    /\ build \in Builds
    /\ pc = "idle"
    /\ op = "none"
    /\ args = <<>>
    /\ ret = 0
    /\ calls = <<>>
    /\ thread = [t \in Threads |-> IdleThread]
    /\ arctan_table = ft_trig_arctan_table

\* The end of a call: it returns value, or it aborts when the build traps
\* and the call overflows.
Finish(overflows, value) ==
    IF build = "trap" /\ overflows
    THEN pc' = "aborted" /\ ret' = ret
    ELSE pc' = "done" /\ ret' = value

CallMulFix ==
    /\ pc = "idle"
    /\ \E a \in Scalars, b \in Scalars :
         /\ op' = "MulFix"
         /\ args' = <<a, b>>
         /\ Finish(MulFixOverflows(a, b), PVG_FT_MulFix(a, b))
    /\ calls' = <<>>
    /\ UNCHANGED <<build, thread, arctan_table>>

CallMulDiv ==
    /\ pc = "idle"
    /\ \E a \in Factors, b \in Factors, c \in Divisors :
         /\ op' = "MulDiv"
         /\ args' = <<a, b, c>>
         /\ Finish(MulDivOverflows(a, b, c), PVG_FT_MulDiv(a, b, c))
    /\ calls' = <<>>
    /\ UNCHANGED <<build, thread, arctan_table>>

CallDivFix ==
    /\ pc = "idle"
    /\ \E a \in Scalars, b \in Scalars :
         /\ op' = "DivFix"
         /\ args' = <<a, b>>
         /\ Finish(DivFixOverflows(a, b), PVG_FT_DivFix(a, b))
    /\ calls' = <<>>
    /\ UNCHANGED <<build, thread, arctan_table>>

CallCos ==
    /\ pc = "idle"
    /\ \E angle \in Angles :
         /\ op' = "Cos"
         /\ args' = <<angle>>
         /\ Finish(FALSE, PVG_FT_Cos(angle))
    /\ calls' = <<"ft_trig_pseudo_rotate">>
    /\ UNCHANGED <<build, thread, arctan_table>>

CallSin ==
    /\ pc = "idle"
    /\ \E angle \in Angles :
         /\ op' = "Sin"
         /\ args' = <<angle>>
         /\ Finish(FALSE, PVG_FT_Sin(angle))
    /\ calls' = <<"ft_trig_pseudo_rotate">>
    /\ UNCHANGED <<build, thread, arctan_table>>

CallTan ==
    /\ pc = "idle"
    /\ \E angle \in Angles :
         /\ op' = "Tan"
         /\ args' = <<angle>>
         /\ Finish(TanOverflows(angle), PVG_FT_Tan(angle))
    /\ calls' = <<"ft_trig_pseudo_rotate">>
    /\ UNCHANGED <<build, thread, arctan_table>>

CallAtan2 ==
    /\ pc = "idle"
    /\ \E dx \in Coords, dy \in Coords :
         /\ op' = "Atan2"
         /\ args' = <<dx, dy>>
         /\ Finish(FALSE, PVG_FT_Atan2(dx, dy))
         /\ calls' = Atan2Calls(dx, dy)
    /\ UNCHANGED <<build, thread, arctan_table>>

CallAngle_Diff ==
    /\ pc = "idle"
    /\ \E angle1 \in DiffAngles, angle2 \in DiffAngles :
         /\ WithinTurns(angle1, angle2)
         /\ op' = "Angle_Diff"
         /\ args' = <<angle1, angle2>>
         /\ Finish(AngleDiffOverflows(angle1, angle2),
                   PVG_FT_Angle_Diff(angle1, angle2))
    /\ calls' = <<>>
    /\ UNCHANGED <<build, thread, arctan_table>>

CallVector_Unit ==
    /\ pc = "idle"
    /\ \E angle \in Angles :
         /\ op' = "Vector_Unit"
         /\ args' = <<angle>>
         /\ Finish(FALSE, PVG_FT_Vector_Unit(angle))
    /\ calls' = <<"ft_trig_pseudo_rotate">>
    /\ UNCHANGED <<build, thread, arctan_table>>

CallVector_Rotate ==
    /\ pc = "idle"
    /\ \E vec \in Vectors, angle \in RotateAngles :
         /\ op' = "Vector_Rotate"
         /\ args' = <<vec[1], vec[2], angle>>
         /\ Finish(FALSE, PVG_FT_Vector_Rotate(vec, angle))
    /\ calls' = <<>>
    /\ UNCHANGED <<build, thread, arctan_table>>

CallVector_Length ==
    /\ pc = "idle"
    /\ \E vec \in LengthVectors :
         /\ op' = "Vector_Length"
         /\ args' = vec
         /\ Finish(VectorLengthOverflows(vec), PVG_FT_Vector_Length(vec))
         /\ calls' = VectorLengthCalls(vec)
    /\ UNCHANGED <<build, thread, arctan_table>>

CallVector_Polarize ==
    /\ pc = "idle"
    /\ \E vec \in Vectors, out \in PriorOutputs :
         /\ op' = "Vector_Polarize"
         /\ args' = <<vec[1], vec[2], out[1], out[2]>>
         /\ Finish(FALSE, PVG_FT_Vector_Polarize(vec, out))
    /\ calls' = <<>>
    /\ UNCHANGED <<build, thread, arctan_table>>

CallVector_From_Polar ==
    /\ pc = "idle"
    /\ \E length \in Lengths, angle \in RotateAngles :
         /\ op' = "Vector_From_Polar"
         /\ args' = <<length, angle>>
         /\ Finish(FALSE, PVG_FT_Vector_From_Polar(length, angle))
    /\ calls' = <<"PVG_FT_Vector_Rotate">>
    /\ UNCHANGED <<build, thread, arctan_table>>

\* The call returns; the caller may call again.
Return ==
    /\ pc = "done"
    /\ pc' = "idle"
    /\ op' = "none"
    /\ args' = <<>>
    /\ ret' = 0
    /\ calls' = <<>>
    /\ UNCHANGED <<build, thread, arctan_table>>

Next ==
    \/ CallMulFix
    \/ CallMulDiv
    \/ CallDivFix
    \/ CallCos
    \/ CallSin
    \/ CallTan
    \/ CallAtan2
    \/ CallAngle_Diff
    \/ CallVector_Unit
    \/ CallVector_Rotate
    \/ CallVector_Length
    \/ CallVector_Polarize
    \/ CallVector_From_Polar
    \/ Return

Spec == Init /\ [][Next]_vars

(***************************************************************************)
(* The engines step by step, run by several threads.                       *)
(***************************************************************************)
\* Thread t takes a step that leaves it in state new; a step touches the
\* thread's own locals and locations only.
Run(t, new) ==
    /\ thread' = [thread EXCEPT ![t] = new]
    /\ UNCHANGED <<build, pc, op, args, ret, calls, arctan_table>>

\* What a read of ft_trig_arctan_table[ptr] gives: the entry, or, past the
\* end of the table, whatever the neighbouring memory holds.
OutOfBoundsValues == {0, -1, 1740967}
TableRead(ptr) ==
    IF ptr \in 0..(Len(arctan_table) - 1) THEN {arctan_table[ptr + 1]}
    ELSE OutOfBoundsValues

LoopContinuesOneMore(i) == i <= PVG_FT_TRIG_MAX_ITERS

\* The loop condition i < PVG_FT_TRIG_MAX_ITERS of both engines.
LoopContinues(i) == i < PVG_FT_TRIG_MAX_ITERS

\* The loop initialisation i = 1, b = 1, arctanptr = ft_trig_arctan_table.
EnterLoop(s, label) ==
    [s EXCEPT !.pc = label, !.i = 1, !.b = 1, !.arctanptr = 0]

AdvanceSkippingEntry(s) ==
    [s EXCEPT !.arctanptr = s.arctanptr + 2, !.i = s.i + 1, !.b = 2 * s.b,
              !.log = Append(s.log, [shift |-> s.i, index |-> s.arctanptr])]

\* The loop bookkeeping of one iteration: *arctanptr++, b <<= 1, i++.
Advance(s) ==
    [s EXCEPT !.arctanptr = s.arctanptr + 1, !.i = s.i + 1, !.b = 2 * s.b,
              !.log = Append(s.log, [shift |-> s.i, index |-> s.arctanptr])]

\* Thread t calls PVG_FT_Vector_Rotate(&vec, angle): the zero vector
\* returns at once, any other is prenormalized and enters
\* ft_trig_pseudo_rotate.
CallRotate(t, vecs, angles) ==
    /\ thread[t].pc = "idle"
    /\ \E vec \in vecs, angle \in angles :
         LET called == [IdleThread EXCEPT !.op = "Vector_Rotate",
                                          !.args = <<vec[1], vec[2], angle>>,
                                          !.vec = vec]
         IN  IF vec[1] = 0 /\ vec[2] = 0
             THEN Run(t, [called EXCEPT !.pc = "done"])
             ELSE Run(t, [called EXCEPT !.pc = "reduce_neg",
                                        !.x = ft_trig_prenorm(vec).x,
                                        !.y = ft_trig_prenorm(vec).y,
                                        !.shift = ft_trig_prenorm(vec).shift,
                                        !.theta = angle])

BelowQuarterTurn(theta) == theta < -PVG_FT_ANGLE_PI2

\* The loop conditions theta < -PVG_FT_ANGLE_PI4 and theta > PVG_FT_ANGLE_PI4
\* of the reduction loops.
BelowSector(theta) == theta < -PVG_FT_ANGLE_PI4
AboveSector(theta) == theta > PVG_FT_ANGLE_PI4

\* One test of while (theta < -PVG_FT_ANGLE_PI4), with its body.
RotateReduceNegStep(t) ==
    /\ thread[t].pc = "reduce_neg"
    /\ IF BelowSector(thread[t].theta)
       THEN Run(t, [thread[t] EXCEPT
                      !.x = thread[t].y,
                      !.y = Neg32(thread[t].x),
                      !.theta = thread[t].theta + PVG_FT_ANGLE_PI2,
                      !.turns = thread[t].turns - 1])
       ELSE Run(t, [thread[t] EXCEPT !.pc = "reduce_pos"])

\* One test of while (theta > PVG_FT_ANGLE_PI4), with its body; when the
\* test fails the pseudorotation loop is entered.
RotateReducePosStep(t) ==
    /\ thread[t].pc = "reduce_pos"
    /\ IF AboveSector(thread[t].theta)
       THEN Run(t, [thread[t] EXCEPT
                      !.x = Neg32(thread[t].y),
                      !.y = thread[t].x,
                      !.theta = thread[t].theta - PVG_FT_ANGLE_PI2,
                      !.turns = thread[t].turns + 1])
       ELSE Run(t, EnterLoop(thread[t], "rotate_loop"))

PseudorotateOneWay(s, up) ==
    <<Add32(s.x, Sar(Add32(s.y, s.b), s.i)),
      Sub32(s.y, Sar(Add32(s.x, s.b), s.i))>>

\* The vector after one pseudorotation by the table entry, away from the
\* sign given by up.
Pseudorotate(s, up) ==
    IF up
    THEN <<Add32(s.x, Sar(Add32(s.y, s.b), s.i)),
           Sub32(s.y, Sar(Add32(s.x, s.b), s.i))>>
    ELSE <<Sub32(s.x, Sar(Add32(s.y, s.b), s.i)),
           Add32(s.y, Sar(Add32(s.x, s.b), s.i))>>

\* One iteration of the pseudorotation loop of ft_trig_pseudo_rotate.
RotateIterate(t) ==
    /\ thread[t].pc = "rotate_loop"
    /\ LoopContinues(thread[t].i)
    /\ \E a \in TableRead(thread[t].arctanptr) :
         Run(t, [Advance(thread[t]) EXCEPT
                   !.x = Pseudorotate(thread[t], thread[t].theta < 0)[1],
                   !.y = Pseudorotate(thread[t], thread[t].theta < 0)[2],
                   !.theta = IF thread[t].theta < 0 THEN thread[t].theta + a
                             ELSE thread[t].theta - a])

\* The loop of ft_trig_pseudo_rotate ends; PVG_FT_Vector_Rotate downscales
\* the vector, undoes the shift and stores the vector in *vec.
RotateFinish(t) ==
    /\ thread[t].pc = "rotate_loop"
    /\ thread[t].op \in {"Vector_Rotate", "Vector_From_Polar"}
    /\ ~LoopContinues(thread[t].i)
    /\ Run(t, [thread[t] EXCEPT
                 !.pc = "done",
                 !.vec = RotateUnshift(
                             DownscaleBoth(<<thread[t].x, thread[t].y>>),
                             thread[t].shift)])

\* Thread t calls PVG_FT_Vector_Polarize(&vec, &length, &angle): the zero
\* vector returns at once, any other is prenormalized and enters
\* ft_trig_pseudo_polarize.
CallPolarize(t, vecs, outs) ==
    /\ thread[t].pc = "idle"
    /\ \E vec \in vecs, out \in outs :
         LET called == [IdleThread EXCEPT
                          !.op = "Vector_Polarize",
                          !.args = <<vec[1], vec[2], out[1], out[2]>>,
                          !.vec = vec,
                          !.out = out]
         IN  IF vec[1] = 0 /\ vec[2] = 0
             THEN Run(t, [called EXCEPT !.pc = "done"])
             ELSE Run(t, [called EXCEPT !.pc = "octant",
                                        !.x = ft_trig_prenorm(vec).x,
                                        !.y = ft_trig_prenorm(vec).y,
                                        !.shift = ft_trig_prenorm(vec).shift])

\* The octant reduction of ft_trig_pseudo_polarize, then the loop is
\* entered.
PolarizeOctantStep(t) ==
    /\ thread[t].pc = "octant"
    /\ Run(t, [EnterLoop(thread[t], "polarize_loop") EXCEPT
                 !.x = PolarizeOctant(thread[t].x, thread[t].y)[1],
                 !.y = PolarizeOctant(thread[t].x, thread[t].y)[2],
                 !.theta = PolarizeOctant(thread[t].x, thread[t].y)[3]])

\* One iteration of the pseudorotation loop of ft_trig_pseudo_polarize.
PolarizeIterate(t) ==
    /\ thread[t].pc = "polarize_loop"
    /\ LoopContinues(thread[t].i)
    /\ \E a \in TableRead(thread[t].arctanptr) :
         Run(t, [Advance(thread[t]) EXCEPT
                   !.x = Pseudorotate(thread[t], thread[t].y > 0)[1],
                   !.y = Pseudorotate(thread[t], thread[t].y > 0)[2],
                   !.theta = IF thread[t].y > 0 THEN thread[t].theta + a
                             ELSE thread[t].theta - a])

\* An end of PVG_FT_Vector_Polarize that had polarized *vec in place
\* instead of a copy.
PolarizeFinishInPlace(t) ==
    /\ thread[t].pc = "polarize_loop"
    /\ thread[t].op = "Vector_Polarize"
    /\ ~LoopContinues(thread[t].i)
    /\ Run(t, [thread[t] EXCEPT
                 !.pc = "done",
                 !.theta = PolarizeRound(thread[t].theta),
                 !.vec = <<thread[t].x, PolarizeRound(thread[t].theta)>>,
                 !.out = PolarizeOutputs(
                             <<thread[t].x, PolarizeRound(thread[t].theta)>>,
                             thread[t].shift)])

\* The loop of ft_trig_pseudo_polarize ends and theta is rounded;
\* PVG_FT_Vector_Polarize downscales the length, undoes the shift and
\* stores *length and *angle.
PolarizeFinish(t) ==
    /\ thread[t].pc = "polarize_loop"
    /\ thread[t].op = "Vector_Polarize"
    /\ ~LoopContinues(thread[t].i)
    /\ Run(t, [thread[t] EXCEPT
                 !.pc = "done",
                 !.theta = PolarizeRound(thread[t].theta),
                 !.out = PolarizeOutputs(
                             <<thread[t].x, PolarizeRound(thread[t].theta)>>,
                             thread[t].shift)])

\* Thread t calls PVG_FT_Vector_Length(&vec): a vector on an axis returns
\* at once, any other is copied, prenormalized and enters
\* ft_trig_pseudo_polarize.
CallLength(t, vecs) ==
    /\ thread[t].pc = "idle"
    /\ \E vec \in vecs :
         LET called == [IdleThread EXCEPT !.op = "Vector_Length",
                                          !.args = vec,
                                          !.vec = vec]
         IN  IF vec[1] = 0
             THEN Run(t, [called EXCEPT !.pc = "done",
                                        !.ret = PVG_FT_ABS(vec[2])])
             ELSE IF vec[2] = 0
             THEN Run(t, [called EXCEPT !.pc = "done",
                                        !.ret = PVG_FT_ABS(vec[1])])
             ELSE Run(t, [called EXCEPT !.pc = "octant",
                                        !.x = ft_trig_prenorm(vec).x,
                                        !.y = ft_trig_prenorm(vec).y,
                                        !.shift = ft_trig_prenorm(vec).shift])

\* The loop of ft_trig_pseudo_polarize ends and theta is rounded;
\* PVG_FT_Vector_Length downscales the length, undoes the shift and
\* returns it.
LengthFinish(t) ==
    /\ thread[t].pc = "polarize_loop"
    /\ thread[t].op = "Vector_Length"
    /\ ~LoopContinues(thread[t].i)
    /\ Run(t, [thread[t] EXCEPT
                 !.pc = "done",
                 !.theta = PolarizeRound(thread[t].theta),
                 !.ret = LengthUnshift(ft_trig_downscale(thread[t].x),
                                       thread[t].shift)])

\* Thread t calls PVG_FT_Vector_From_Polar(&vec, length, angle): it stores
\* (length, 0) in *vec and goes on as PVG_FT_Vector_Rotate(&vec, angle).
CallFromPolar(t, lengths, angles) ==
    /\ thread[t].pc = "idle"
    /\ \E length \in lengths, angle \in angles :
         LET called == [IdleThread EXCEPT !.op = "Vector_From_Polar",
                                          !.args = <<length, angle>>,
                                          !.vec = <<length, 0>>]
         IN  IF length = 0
             THEN Run(t, [called EXCEPT !.pc = "done"])
             ELSE Run(t, [called EXCEPT
                            !.pc = "reduce_neg",
                            !.x = ft_trig_prenorm(<<length, 0>>).x,
                            !.y = ft_trig_prenorm(<<length, 0>>).y,
                            !.shift = ft_trig_prenorm(<<length, 0>>).shift,
                            !.theta = angle])

\* PVG_FT_Cos up to its call of ft_trig_pseudo_rotate: the local vector
\* is (PVG_FT_TRIG_SCALE >> 8, 0) and theta the angle passed.
CosCalled(name, angle, theta) ==
    [IdleThread EXCEPT !.pc = "reduce_neg",
                       !.op = name,
                       !.args = <<angle>>,
                       !.x = PVG_FT_TRIG_SCALE_SHR8,
                       !.y = 0,
                       !.theta = theta]

\* Thread t calls PVG_FT_Cos(angle).
EnterCos(t, angles) ==
    /\ thread[t].pc = "idle"
    /\ \E angle \in angles : Run(t, CosCalled("Cos", angle, angle))

\* The angle PVG_FT_Sin passes to PVG_FT_Cos, converted to PVG_FT_Angle.
SinToCosAngle(angle) == Sub32(PVG_FT_ANGLE_PI2, angle)

\* Thread t calls PVG_FT_Sin(angle), which calls
\* PVG_FT_Cos(PVG_FT_ANGLE_PI2 - angle).
EnterSin(t, angles) ==
    /\ thread[t].pc = "idle"
    /\ \E angle \in angles :
         Run(t, CosCalled("Sin", angle, SinToCosAngle(angle)))

\* The loop of ft_trig_pseudo_rotate ends and PVG_FT_Cos returns the
\* rounded x.
CosFinish(t) ==
    /\ thread[t].pc = "rotate_loop"
    /\ thread[t].op \in {"Cos", "Sin"}
    /\ ~LoopContinues(thread[t].i)
    /\ Run(t, [thread[t] EXCEPT
                 !.pc = "done",
                 !.ret = Sar(Add32(thread[t].x, 128), 8)])

\* The call of thread t has returned; the thread may call again.
ThreadReturn(t) ==
    /\ thread[t].pc = "done"
    /\ Run(t, IdleThread)

EngineNext ==
    \E t \in Threads :
        \/ CallRotate(t, EngineVectors, EngineAngles)
        \/ RotateReduceNegStep(t)
        \/ RotateReducePosStep(t)
        \/ RotateIterate(t)
        \/ RotateFinish(t)
        \/ CallPolarize(t, EngineVectors, EnginePriorOutputs)
        \/ PolarizeOctantStep(t)
        \/ PolarizeIterate(t)
        \/ PolarizeFinish(t)
        \/ ThreadReturn(t)

EngineSpec == Init /\ [][EngineNext]_vars

(***************************************************************************)
(* One thread running the vector operations step by step, on vectors from  *)
(* the whole 32-bit range.                                                 *)
(***************************************************************************)
StepAngles ==
    {0, PVG_FT_ANGLE_PI4, -PVG_FT_ANGLE_PI2 - 1, 150 * 65536, 1234567}

StepNext ==
    \/ CallRotate("t1", Vectors, StepAngles)
    \/ RotateReduceNegStep("t1")
    \/ RotateReducePosStep("t1")
    \/ RotateIterate("t1")
    \/ RotateFinish("t1")
    \/ CallPolarize("t1", Vectors, EnginePriorOutputs)
    \/ PolarizeOctantStep("t1")
    \/ PolarizeIterate("t1")
    \/ PolarizeFinish("t1")
    \/ CallLength("t1", Vectors)
    \/ LengthFinish("t1")
    \/ CallFromPolar("t1", Lengths, StepAngles)
    \/ ThreadReturn("t1")

StepSpec == Init /\ [][StepNext]_vars

(***************************************************************************)
(* One thread rotating by angles from the whole 32-bit range.  A thread    *)
(* inside a reduction loop keeps running it.                               *)
(***************************************************************************)
ReduceHalfSteps == 34
ReduceStride == 60000001

ReduceAngles ==
    {k * ReduceStride : k \in (-ReduceHalfSteps)..ReduceHalfSteps}
        \cup {INT_MIN, INT_MIN + 1, INT_MAX,
              -PVG_FT_ANGLE_PI4 - 1, -PVG_FT_ANGLE_PI4, -PVG_FT_ANGLE_PI4 + 1,
              PVG_FT_ANGLE_PI4 - 1, PVG_FT_ANGLE_PI4, PVG_FT_ANGLE_PI4 + 1,
              -135 * 65536, 135 * 65536, -PVG_FT_ANGLE_PI, PVG_FT_ANGLE_PI}

ReduceVectors == {<<65536, 0>>, <<-54321, 7>>}

ReduceNext ==
    \/ CallRotate("t1", ReduceVectors, ReduceAngles)
    \/ RotateReduceNegStep("t1")
    \/ RotateReducePosStep("t1")
    \/ RotateIterate("t1")
    \/ RotateFinish("t1")
    \/ ThreadReturn("t1")

ReduceSpec ==
    /\ Init
    /\ [][ReduceNext]_vars
    /\ WF_vars(RotateReduceNegStep("t1"))
    /\ WF_vars(RotateReducePosStep("t1"))

(***************************************************************************)
(* A caller that evaluates PVG_FT_Cos or PVG_FT_Sin at an angle and then   *)
(* at that angle plus a full turn; the record of t1 keeps the first call,  *)
(* the record of t2 the second.                                            *)
(***************************************************************************)
PeriodAngles ==
    {INT_MIN, INT_MIN + 1000, INT_MIN + PVG_FT_ANGLE_PI2,
     INT_MIN + PVG_FT_ANGLE_PI2 + 1, -7 * PVG_FT_ANGLE_PI4,
     -PVG_FT_ANGLE_PI4, PVG_FT_ANGLE_PI4, 3 * PVG_FT_ANGLE_PI4,
     0, 1234567, INT_MAX - PVG_FT_ANGLE_2PI}

\* The first call has returned: the angle of the second call.
FullTurnLater ==
    IF thread["t1"].pc = "done"
    THEN {thread["t1"].args[1] + PVG_FT_ANGLE_2PI}
    ELSE {}

SecondCos == thread["t1"].op = "Cos" /\ EnterCos("t2", FullTurnLater)

SecondSin == thread["t1"].op = "Sin" /\ EnterSin("t2", FullTurnLater)

PeriodNext ==
    \/ EnterCos("t1", PeriodAngles)
    \/ EnterSin("t1", PeriodAngles)
    \/ SecondCos
    \/ SecondSin
    \/ \E t \in Threads :
         \/ RotateReduceNegStep(t)
         \/ RotateReducePosStep(t)
         \/ RotateIterate(t)
         \/ CosFinish(t)

PeriodSpec == Init /\ [][PeriodNext]_vars

(***************************************************************************)
(* Reference arithmetic for the statements below: plain integer formulas,  *)
(* evaluated without leaving 32 bits; -1 stands for a value above INT_MAX. *)
(***************************************************************************)
Sgn(x) == IF x > 0 THEN 1 ELSE IF x < 0 THEN -1 ELSE 0

Abs(x) == IF x < 0 THEN -x ELSE x

\* The call of operation o has returned.
Returned(o) == pc = "done" /\ op = o

CapAdd(x, y) ==
    IF x < 0 \/ y < 0 THEN -1 ELSE IF x > INT_MAX - y THEN -1 ELSE x + y

CapShl16(x) == IF x < 0 \/ x > 32767 THEN -1 ELSE x * 65536

\* floor((m*n + 0x8000) / 0x10000) for 0 <= m, n <= INT_MAX.
RoundedProduct(m, n) ==
    LET mh == m \div 65536
        ml == m % 65536
        nh == n \div 65536
        nl == n % 65536
        t  == (((ml \div 256) * nl) + (((ml % 256) * nl + 32768) \div 256)) \div 256
    IN  CapAdd(CapShl16(mh * nh), CapAdd(mh * nl, CapAdd(ml * nh, t)))

\* C1 (as stated): for all a, b other than -2^31, MulFix(a, b) is
\* sign(a)*sign(b) * floor((|a|*|b| + 0x8000) / 0x10000).
C1_MulFixExactAlways ==
    (op = "MulFix" /\ pc # "idle" /\ args[1] # INT_MIN /\ args[2] # INT_MIN) =>
        LET r == RoundedProduct(Abs(args[1]), Abs(args[2]))
        IN  pc = "done" /\ r # -1 /\ ret = Sgn(args[1]) * Sgn(args[2]) * r

\* C1 (amended): for all a, b other than -2^31 whose rounded product
\* magnitude floor((|a|*|b| + 0x8000) / 0x10000) is at most 0x7FFFFFFF,
\* MulFix(a, b) returns sign(a)*sign(b) times that magnitude (a*b/65536
\* rounded to nearest, ties away from zero), in every build; in
\* particular MulFix(65536, 65536) = 65536, MulFix(131072, 32768) = 65536
\* and MulFix(a, 65536) = a.
C1_MulFixExactWhenFits ==
    (op = "MulFix" /\ pc # "idle" /\ args[1] # INT_MIN /\ args[2] # INT_MIN) =>
        LET r == RoundedProduct(Abs(args[1]), Abs(args[2]))
        IN  /\ r # -1 => (pc = "done" /\ ret = Sgn(args[1]) * Sgn(args[2]) * r)
            /\ args = <<65536, 65536>> => ret = 65536
            /\ args = <<131072, 32768>> => ret = 65536
            /\ args[2] = 65536 => ret = args[1]

\* MulFix(-3, 32768): the magnitude 1.5 is a tie and rounds away from zero.
C1_Witness == Returned("MulFix") /\ args = <<-3, 32768>> /\ ret = -2

C3_DivFixDegenerate ==
    Returned("DivFix") =>
        /\ args[2] = 0 => ret = IF args[1] >= 0 THEN INT_MAX ELSE -INT_MAX
        /\ (args[1] = 0 /\ args[2] # 0) => ret = 0

\* One step of the reference long division: <<q, r>> with n*q + r the
\* dividend so far becomes the pair for twice the dividend.
RefDouble(qr, n) ==
    LET c == IF qr[2] >= n - qr[2] THEN 1 ELSE 0
        q == IF qr[1] < 0 \/ qr[1] > (INT_MAX - c) \div 2 THEN -1
             ELSE 2 * qr[1] + c
    IN  <<q, IF c = 1 THEN qr[2] - (n - qr[2]) ELSE 2 * qr[2]>>

RECURSIVE RefShiftDiv(_, _, _)
RefShiftDiv(qr, k, n) ==
    IF k = 0 THEN qr
    ELSE LET next == RefDouble(qr, n)
         IN  IF next[1] = -1 THEN next ELSE RefShiftDiv(next, k - 1, n)

\* <<floor(|a|*65536 / |b|), remainder>> for b # 0.  |a| = 2^31 is taken
\* as 2^30 * 2; |b| = 2^31 divides 65536 out.
RefQuotient(a, b) ==
    IF b = INT_MIN
    THEN IF a = INT_MIN THEN <<65536, 0>>
         ELSE <<Abs(a) \div 32768, Abs(a) % 32768>>
    ELSE IF a = INT_MIN
         THEN RefShiftDiv(<<1073741824 \div Abs(b), 1073741824 % Abs(b)>>, 17, Abs(b))
         ELSE RefShiftDiv(<<Abs(a) \div Abs(b), Abs(a) % Abs(b)>>, 16, Abs(b))

\* The exact quotient |a|*65536/|b| is above 0x7FFFFFFF.
QuotientExceeds(a, b) ==
    LET qr == RefQuotient(a, b)
    IN  qr[1] = -1 \/ (qr[1] = INT_MAX /\ qr[2] > 0)

\* floor((|a|*65536 + floor(|b|/2)) / |b|), for a quotient that fits.
RoundedQuotient(a, b) ==
    LET qr == RefQuotient(a, b)
        up == IF b = INT_MIN THEN qr[2] >= 16384
              ELSE qr[2] >= Abs(b) - (Abs(b) \div 2)
    IN  IF up /\ qr[1] < INT_MAX THEN qr[1] + 1 ELSE qr[1]

\* C4: for all a and b # 0 whose exact quotient fits in 32 bits,
\* DivFix(a, b) is sign(a)*sign(b) * floor((|a|*65536 + floor(|b|/2)) / |b|),
\* and DivFix(a, 65536) = a.
C4_DivFixRounded ==
    (Returned("DivFix") /\ args[2] # 0 /\ ~QuotientExceeds(args[1], args[2])) =>
        /\ ret = Sgn(args[1]) * Sgn(args[2]) * RoundedQuotient(args[1], args[2])
        /\ args[2] = 65536 => ret = args[1]

\* C5: for all a and b # 0 whose exact quotient |a|*65536/|b| exceeds
\* 0x7FFFFFFF, DivFix(a, b) is 0x7FFFFFFF with the sign of a*b.
C5_DivFixSaturates ==
    (Returned("DivFix") /\ args[2] # 0 /\ QuotientExceeds(args[1], args[2])) =>
        ret = Sgn(args[1]) * Sgn(args[2]) * INT_MAX

\* C6: when a2 - a1 is representable, Angle_Diff(a1, a2) returns the
\* unique d with -180*2^16 < d <= 180*2^16 and d congruent to a2 - a1
\* modulo 360*2^16.
C6_AngleDiffNormalized ==
    (op = "Angle_Diff" /\ pc # "idle" /\ ~AngleDiffOverflows(args[1], args[2])) =>
        /\ pc = "done"
        /\ -(180 * 65536) < ret
        /\ ret <= 180 * 65536
        /\ ret % (360 * 65536) = (args[2] - args[1]) % (360 * 65536)

\* Angle_Diff(-450 deg, 450 deg + 1): 900 deg + 1 is brought down by three
\* full turns to -180 deg + 1.
C6_Witness ==
    /\ Returned("Angle_Diff")
    /\ args = <<-5 * 90 * 65536, 5 * 90 * 65536 + 1>>
    /\ ret = -(180 * 65536) + 1

\* C7: for every angle t in [-720, 720] degrees, with c = Cos(t) and
\* s = Sin(t), MulFix(c, c) + MulFix(s, s) differs from 65536 by at most 64.
C7_UnitCircle ==
    (Returned("Cos") /\ -(720 * 65536) <= args[1] /\ args[1] <= 720 * 65536) =>
        LET c == ret
            s == PVG_FT_Sin(args[1])
        IN  Abs(PVG_FT_MulFix(c, c) + PVG_FT_MulFix(s, s) - 65536) <= 64

\* Cos(60 deg), an angle that needs the quarter-turn reduction: the cosine
\* is near 0.5 and the sine near 0.866.
C7_Witness ==
    /\ Returned("Cos")
    /\ args = <<60 * 65536>>
    /\ Abs(ret - 32768) <= 4
    /\ Abs(PVG_FT_Sin(args[1]) - 56756) <= 4

\* C8: for every non-zero vector the angle returned by Atan2 lies in
\* -180*2^16 < angle <= 180*2^16.
C8_Atan2HalfOpenRange ==
    (Returned("Atan2") /\ args # <<0, 0>>) =>
        (-(180 * 65536) < ret /\ ret <= 180 * 65536)

\* C9: Atan2(-65536, 0) returns 180*2^16 = 11796480.
C9_Atan2NegativeXAxis ==
    (Returned("Atan2") /\ args = <<-65536, 0>>) => ret = 11796480

\* C10: Atan2(0, 0) returns 0 without running ft_trig_prenorm or
\* ft_trig_pseudo_polarize; Atan2(65536, 0) returns exactly 0; and
\* Atan2(0, 65536) is within 32 units of 90*2^16 = 5898240.
C10_Atan2Axes ==
    (op = "Atan2" /\ pc # "idle") =>
        /\ pc = "done"
        /\ args = <<0, 0>> => (ret = 0 /\ calls = <<>>)
        /\ args = <<65536, 0>> => ret = 0
        /\ args = <<0, 65536>> => Abs(ret - 5898240) <= 32

\* Atan2(0, 65536): the engines have run and the angle is a quarter turn.
C10_Witness ==
    /\ Returned("Atan2")
    /\ args = <<0, 65536>>
    /\ calls = <<"ft_trig_prenorm", "ft_trig_pseudo_polarize">>
    /\ Abs(ret - 5898240) <= 32

\* C11: when PVG_FT_Vector_Polarize is called with the zero vector, the
\* angle output location holds 0 after the call, whatever it held before.
C11_PolarizeZeroReportsAngleZero ==
    (Returned("Vector_Polarize") /\ args[1] = 0 /\ args[2] = 0) => ret[2] = 0

\* |a - b|, capped at INT_MAX.
AbsDiff(a, b) ==
    IF (a >= 0) = (b >= 0) THEN Abs(a - b)
    ELSE LET hi == IF a >= 0 THEN a ELSE b
             lo == IF a >= 0 THEN b ELSE a
         IN  IF hi > INT_MAX + lo THEN INT_MAX ELSE hi - lo

\* A <= B for unsigned 64-bit values.
LeU64(A, B) ==
    LET d == {i \in 1..8 : A[i] # B[i]}
    IN  \/ d = {}
        \/ LET m == CHOOSE i \in d : \A j \in d : j <= i
            IN  A[m] < B[m]

\* x^2 + y^2 as a 64-bit value.
SquaredLength(x, y) ==
    Add64(Mul64(SExt64(x), SExt64(x)), Mul64(SExt64(y), SExt64(y)))

\* e <= 2^-10 times the length of (x, y), for e >= 0: e^2 * 2^20 <= x^2 + y^2.
WithinLengthFraction(e, x, y) ==
    /\ e < 4194304
    /\ LeU64(Mul64(Mul64(SExt64(e), SExt64(e)), SExt64(1048576)),
             SquaredLength(x, y))

\* The length of (x, y) is at most 2^31 - 2^16.
LengthRepresentable(x, y) ==
    LeU64(SquaredLength(x, y), SquaredLength(INT_MAX - 65535, 0))

\* The larger of the two coordinate errors of w against (x, y).
CoordError(w, x, y) ==
    LET ex == AbsDiff(w[1], x)
        ey == AbsDiff(w[2], y)
    IN  IF ex > ey THEN ex ELSE ey

\* The error of polarizing (x, y) and converting the returned length and
\* angle back.
RoundTripError ==
    CoordError(PVG_FT_Vector_From_Polar(ret[1], ret[2]), args[1], args[2])

PolarizedNonZero ==
    Returned("Vector_Polarize") /\ (args[1] # 0 \/ args[2] # 0)

C13_RotateQuarterTurn ==
    (Returned("Vector_Rotate") /\ args = <<65536, 0, PVG_FT_ANGLE_PI2>>)
        => Abs(ret[1]) <= 256 /\ Abs(ret[2] - 65536) <= 256

C13_Witness ==
    /\ Returned("Vector_Rotate")
    /\ args = <<65536, 0, PVG_FT_ANGLE_PI2>>
    /\ ret = <<0, 65536>>

\* r is the absolute value of x.
IsAbsOf(r, x) == r >= 0 /\ r + (IF x < 0 THEN x ELSE -x) = 0

\* C14: for every vector with x = 0 or y = 0, PVG_FT_Vector_Length returns
\* exactly the absolute value of the other coordinate and runs neither
\* ft_trig_prenorm nor the CORDIC engine; this covers the length 65536 of
\* (65536, 0) and the length 0 of (0, 0).
C14_LengthOnAxis ==
    (Returned("Vector_Length") /\ (args[1] = 0 \/ args[2] = 0))
        => /\ calls = <<>>
           /\ IsAbsOf(ret, IF args[1] = 0 THEN args[2] ELSE args[1])

\* The argument of PVG_FT_Vector_Length is (3k * 65536, 4k * 65536) for a
\* k >= 1 whose 5k * 65536 is representable; TriangleScale is that k.
TriangleScale == args[1] \div (3 * 65536)

IsTriangle ==
    /\ args[1] > 0
    /\ args[1] % (3 * 65536) = 0
    /\ args[2] = 4 * 65536 * TriangleScale
    /\ 5 * TriangleScale <= INT_MAX \div 65536

\* C15: PVG_FT_Vector_Length of (3 * 65536, 4 * 65536) is within 327 of
\* 327680, and for every k >= 1 whose 5k * 65536 is representable the
\* length of (3k * 65536, 4k * 65536) is within 0.1% of 5k * 65536.
C15_TriangleLength ==
    (Returned("Vector_Length") /\ IsTriangle)
        => /\ AbsDiff(ret, 5 * 65536 * TriangleScale)
                  <= (5 * 65536 * TriangleScale) \div 1000
           /\ TriangleScale = 1 => AbsDiff(ret, 327680) <= 327

C15_Witness ==
    /\ Returned("Vector_Length")
    /\ IsTriangle
    /\ TriangleScale = 6553
    /\ calls = <<"ft_trig_prenorm", "ft_trig_pseudo_polarize",
                 "ft_trig_downscale">>
    /\ AbsDiff(ret, 5 * 65536 * 6553) <= 6

\* C16: after PVG_FT_Vector_Unit(vec, angle), vec.x equals PVG_FT_Sin(angle)
\* and vec.y equals PVG_FT_Cos(angle).
C16_UnitIsSinCos ==
    Returned("Vector_Unit")
        => ret[1] = PVG_FT_Sin(args[1]) /\ ret[2] = PVG_FT_Cos(args[1])

\* The call of thread t has returned.
ThreadReturned(t, o) == thread[t].pc = "done" /\ thread[t].op = o

\* What the call thread t has finished leaves in its locations is what the
\* same call leaves when it runs alone.
ResultAsAlone(t) ==
    /\ ThreadReturned(t, "Vector_Rotate")
         => thread[t].vec =
                PVG_FT_Vector_Rotate(<<thread[t].args[1], thread[t].args[2]>>,
                                     thread[t].args[3])
    /\ ThreadReturned(t, "Vector_Polarize")
         => thread[t].out =
                PVG_FT_Vector_Polarize(
                    <<thread[t].args[1], thread[t].args[2]>>,
                    <<thread[t].args[3], thread[t].args[4]>>)

\* A step changes the locals and locations of one thread at most.
OneThreadSteps ==
    \A t \in Threads :
        thread'[t] # thread[t]
            => \A u \in Threads \ {t} : thread'[u] = thread[u]

\* C17: calls made concurrently by several threads, each on its own vector
\* and output locations, leave in every interleaving exactly what each call
\* leaves when it runs alone; no step writes state shared between threads,
\* and the arctangent table is only read.
C17_ThreadsIndependent ==
    /\ [](\A t \in Threads : ResultAsAlone(t))
    /\ [][OneThreadSteps /\ arctan_table' = arctan_table]_vars

C17_Witness ==
    /\ ThreadReturned("t1", "Vector_Rotate")
    /\ thread["t1"].args = <<-54321, 7, -60 * 65536>>
    /\ thread["t1"].vec # <<-54321, 7>>
    /\ thread["t2"].pc = "polarize_loop"
    /\ thread["t2"].i = 11

\* The loop iterations thread t has run so far used, in order, the shifts
\* 1, 2, ... and the table entries 1, 2, ... (indices 0, 1, ...).
LogInOrder(t) ==
    \A n \in 1..Len(thread[t].log) :
        thread[t].log[n] = [shift |-> n, index |-> n - 1]

\* The engine has run in the call that thread t has finished.
EngineRan(t) ==
    /\ thread[t].pc = "done"
    /\ thread[t].args[1] # 0 \/ thread[t].args[2] # 0

\* Every call that ran an engine ran exactly n iterations of its loop,
\* iteration i with shift i and the i-th table entry.
IterationsAre(n) ==
    \A t \in Threads :
        /\ LogInOrder(t)
        /\ EngineRan(t) => Len(thread[t].log) = n

\* The angle of a polarization is rounded in the step that follows the
\* n-th iteration.
RoundedAfter(n) ==
    \A t \in Threads :
        (thread[t].pc = "polarize_loop" /\ thread'[t].pc = "done")
            => /\ Len(thread[t].log) = n
               /\ thread'[t].theta = PolarizeRound(thread[t].theta)

\* C18 as stated: both engines run exactly 21 iterations, i = 1 to 21,
\* iteration i with shift i and the i-th table entry, and the angle of a
\* polarization is rounded after those 21 iterations.
C18_TwentyOneIterations ==
    [](IterationsAre(21)) /\ [][RoundedAfter(21)]_vars

\* C18: both engines run exactly 22 iterations, i = 1 to 22, iteration i
\* with shift i and the i-th table entry, and the angle of a polarization is
\* rounded after those 22 iterations.
C18_TwentyTwoIterations ==
    [](IterationsAre(22)) /\ [][RoundedAfter(22)]_vars

C18_Witness ==
    \E t \in Threads :
        /\ ThreadReturned(t, "Vector_Polarize")
        /\ EngineRan(t)
        /\ Len(thread[t].log) = 22
        /\ thread[t].log[22] = [shift |-> 22, index |-> 21]
        /\ thread[t].theta % 32 = 0

\* C19: every loop iteration reads the table once, at the indices 0, 1, 2,
\* ... in order; no read is outside the 22 entries (the index never exceeds
\* 21); the table is never written.
C19_TableReadsInBounds ==
    /\ [](\A t \in Threads :
             /\ \A n \in 1..Len(thread[t].log) :
                    /\ thread[t].log[n].index = n - 1
                    /\ thread[t].log[n].index <= 21
             /\ thread[t].pc \in {"rotate_loop", "polarize_loop"}
                    => thread[t].arctanptr = Len(thread[t].log))
    /\ [][/\ arctan_table' = arctan_table
          /\ \A t \in Threads :
                thread'[t].arctanptr # thread[t].arctanptr
                    => \/ thread'[t].arctanptr = 0
                       \/ /\ thread'[t].arctanptr = thread[t].arctanptr + 1
                          /\ Len(thread'[t].log) = Len(thread[t].log) + 1]_vars

C19_Witness ==
    \E t \in Threads :
        /\ thread[t].pc = "rotate_loop"
        /\ ~LoopContinues(thread[t].i)
        /\ Len(thread[t].log) = Len(arctan_table)
        /\ thread[t].log[22].index = 21
        /\ arctan_table = ft_trig_arctan_table

\* The vector v turned by k exact quarter turns.
QuarterTurned(v, k) ==
    IF k % 4 = 0 THEN v
    ELSE IF k % 4 = 1 THEN <<-v[2], v[1]>>
    ELSE IF k % 4 = 2 THEN <<-v[1], -v[2]>>
    ELSE <<v[2], -v[1]>>

\* While thread t reduces the angle, and when it has done so, the angle
\* left and the quarter turns applied add up to the target angle, and the
\* vector is the prenormalized vector turned by as many quarter turns.
TurnsExact(t) ==
    thread[t].pc \in {"reduce_neg", "reduce_pos"}
        \/ (thread[t].pc = "rotate_loop" /\ thread[t].i = 1)
    => /\ thread[t].theta + thread[t].turns * PVG_FT_ANGLE_PI2
             = thread[t].args[3]
       /\ <<thread[t].x, thread[t].y>> =
             QuarterTurned(
                 <<ft_trig_prenorm(<<thread[t].args[1], thread[t].args[2]>>).x,
                   ft_trig_prenorm(<<thread[t].args[1], thread[t].args[2]>>).y>>,
                 thread[t].turns)

\* Thread t has left the reduction loops and is about to run the first
\* pseudorotation.
Reduced(t) == thread[t].pc = "rotate_loop" /\ thread[t].i = 1

\* C20 as stated: for every 32-bit target angle the reduction loops of
\* ft_trig_pseudo_rotate terminate, with a remaining angle r in
\* -45 * 2^16 < r <= 45 * 2^16, after k exact quarter turns such that
\* r + k * 90 * 2^16 is the target angle.
C20_ReducedHalfOpen ==
    /\ [](\A t \in Threads :
             /\ TurnsExact(t)
             /\ Reduced(t) => /\ -PVG_FT_ANGLE_PI4 < thread[t].theta
                              /\ thread[t].theta <= PVG_FT_ANGLE_PI4)
    /\ \A t \in Threads : thread[t].pc = "reduce_neg" ~> Reduced(t)

\* C20: for every 32-bit target angle the reduction loops of
\* ft_trig_pseudo_rotate terminate, with a remaining angle r in
\* -45 * 2^16 <= r <= 45 * 2^16, after k exact quarter turns such that
\* r + k * 90 * 2^16 is the target angle.
C20_ReducedClosed ==
    /\ [](\A t \in Threads :
             /\ TurnsExact(t)
             /\ Reduced(t) => /\ -PVG_FT_ANGLE_PI4 <= thread[t].theta
                              /\ thread[t].theta <= PVG_FT_ANGLE_PI4)
    /\ \A t \in Threads : thread[t].pc = "reduce_neg" ~> Reduced(t)

C20_Witness ==
    /\ Reduced("t1")
    /\ thread["t1"].args[3] = INT_MIN
    /\ thread["t1"].turns = -364
    /\ thread["t1"].theta = -524288

\* Thread t has just prenormalized the vector of its call: x, y and shift
\* are what ft_trig_prenorm made of thread[t].vec.
Prenormed(t) ==
    \/ thread[t].pc = "octant"
    \/ thread[t].pc = "reduce_neg" /\ thread[t].turns = 0

MaxAbs(x, y) == IF Abs(x) > Abs(y) THEN Abs(x) ELSE Abs(y)

\* C21: for every non-zero vector with components other than -2^31, after
\* ft_trig_prenorm the larger of |x| and |y| has its most significant bit
\* at bit 29 (2^29 <= max(|x|, |y|) < 2^30), and the returned shift s is in
\* -1..29; for s >= 0 the vector was multiplied by 2^s exactly (a right
\* shift by s restores it), for s < 0 it was shifted right arithmetically
\* by -s.
C21_PrenormMsbAt29 ==
    \A t \in Threads :
        Prenormed(t)
            => /\ Pow2(PVG_FT_TRIG_SAFE_MSB) <= MaxAbs(thread[t].x, thread[t].y)
               /\ MaxAbs(thread[t].x, thread[t].y) < Pow2(PVG_FT_TRIG_SAFE_MSB + 1)
               /\ thread[t].shift \in -1..29
               /\ thread[t].shift >= 0
                    => /\ thread[t].x = thread[t].vec[1] * Pow2(thread[t].shift)
                       /\ thread[t].y = thread[t].vec[2] * Pow2(thread[t].shift)
                       /\ Sar(thread[t].x, thread[t].shift) = thread[t].vec[1]
                       /\ Sar(thread[t].y, thread[t].shift) = thread[t].vec[2]
               /\ thread[t].shift < 0
                    => /\ thread[t].x = Sar(thread[t].vec[1], -thread[t].shift)
                       /\ thread[t].y = Sar(thread[t].vec[2], -thread[t].shift)

\* a + b and a - b are representable.
AddFits(a, b) == IF b >= 0 THEN a <= INT_MAX - b ELSE a >= INT_MIN - b
SubFits(a, b) == IF b >= 0 THEN a >= INT_MIN + b ELSE a <= INT_MAX + b

\* Every sum and difference of the loop iteration that the thread in state
\* s is about to run is representable; up is the direction it takes.
IterationFits(s, up) ==
    /\ AddFits(s.y, s.b)
    /\ AddFits(s.x, s.b)
    /\ IF up
       THEN /\ AddFits(s.x, Sar(Add32(s.y, s.b), s.i))
            /\ SubFits(s.y, Sar(Add32(s.x, s.b), s.i))
       ELSE /\ SubFits(s.x, Sar(Add32(s.y, s.b), s.i))
            /\ AddFits(s.y, Sar(Add32(s.x, s.b), s.i))

\* C22: for every vector produced by ft_trig_prenorm and every angle, all
\* values of x and y that ft_trig_pseudo_rotate and ft_trig_pseudo_polarize
\* compute, the rounded terms y + b and x + b and the negations of the
\* reductions included, are within the signed 32-bit range.
C22_EnginesStayInRange ==
    \A t \in Threads :
        /\ (thread[t].pc = "rotate_loop" /\ LoopContinues(thread[t].i))
              => IterationFits(thread[t], thread[t].theta < 0)
        /\ (thread[t].pc = "polarize_loop" /\ LoopContinues(thread[t].i))
              => IterationFits(thread[t], thread[t].y > 0)
        /\ thread[t].pc \in {"reduce_neg", "reduce_pos", "octant"}
              => thread[t].x # INT_MIN /\ thread[t].y # INT_MIN

C22_Witness ==
    /\ thread["t1"].pc = "polarize_loop"
    /\ thread["t1"].vec = <<-INT_MAX, INT_MAX>>
    /\ thread["t1"].i = 10
    /\ thread["t1"].x > 1700000000

\* Thread t has just run the octant reduction of ft_trig_pseudo_polarize.
OctantReduced(t) == thread[t].pc = "polarize_loop" /\ thread[t].i = 1

\* The vector that entered ft_trig_pseudo_polarize in the call of thread t.
PolarizeInput(t) ==
    <<ft_trig_prenorm(thread[t].vec).x, ft_trig_prenorm(thread[t].vec).y>>

\* C23: after the octant reduction of ft_trig_pseudo_polarize the vector
\* lies in the sector from -45 to 45 degrees (x >= 0 and |y| <= x), it is
\* the input turned by exactly minus the initial angle offset, and the
\* offset is one of 0, 90 * 2^16, -90 * 2^16, 180 * 2^16, -180 * 2^16.
C23_OctantReduction ==
    \A t \in Threads :
        OctantReduced(t)
            => /\ thread[t].x >= 0
               /\ Abs(thread[t].y) <= thread[t].x
               /\ thread[t].theta \in {0, PVG_FT_ANGLE_PI2, -PVG_FT_ANGLE_PI2,
                                       PVG_FT_ANGLE_PI, -PVG_FT_ANGLE_PI}
               /\ <<thread[t].x, thread[t].y>> =
                      QuarterTurned(PolarizeInput(t),
                                    -(thread[t].theta \div PVG_FT_ANGLE_PI2))

C23_Witness ==
    /\ OctantReduced("t1")
    /\ thread["t1"].vec = <<-54321, -1>>
    /\ thread["t1"].theta = -PVG_FT_ANGLE_PI
    /\ thread["t1"].x > 0
    /\ thread["t1"].y > 0

\* The step of thread t that ends ft_trig_pseudo_polarize: the loop is
\* over before the step and the call has returned after it.
PolarizeEnds(t) == thread[t].pc = "polarize_loop" /\ thread'[t].pc = "done"

\* r is the multiple of 32 nearest to theta, a tie going away from zero.
NearestMultipleOf32(r, theta) ==
    /\ r % 32 = 0
    /\ Abs(r - theta) <= 16
    /\ Abs(r - theta) = 16 => Abs(r) > Abs(theta)

\* C24: the angle that ft_trig_pseudo_polarize returns, which
\* PVG_FT_Vector_Polarize stores in *angle, is a multiple of 32: the
\* accumulated angle rounded to the nearest multiple of 32, symmetrically
\* about zero, so that it differs from the accumulated angle by at most 16.
C24_AngleRoundedTo32 ==
    [][\A t \in Threads :
          PolarizeEnds(t)
              => /\ NearestMultipleOf32(thread'[t].theta, thread[t].theta)
                 /\ PolarizeRound(-thread[t].theta) = -thread'[t].theta
                 /\ thread[t].op = "Vector_Polarize"
                        => thread'[t].out[2] = thread'[t].theta]_vars

C24_Witness ==
    /\ thread["t1"].pc = "done"
    /\ thread["t1"].op = "Vector_Polarize"
    /\ thread["t1"].vec = <<-54321, -1>>
    /\ thread["t1"].theta < -PVG_FT_ANGLE_PI2
    /\ thread["t1"].theta % 32 = 0
    /\ thread["t1"].out[2] = thread["t1"].theta

\* The vector (0xDBD95B, 0) turned by angle by ft_trig_pseudo_rotate.
RotatedUnit(angle) ==
    ft_trig_pseudo_rotate(<<PVG_FT_TRIG_SCALE_SHR8, 0>>, angle)

\* C25: for every angle t PVG_FT_Tan(t) returns, in every build, the value
\* PVG_FT_DivFix(y, x) where (x, y) is (0xDBD95B, 0) turned by t, the
\* rotation whose x, rounded, is PVG_FT_Cos(t); whenever that x is 0 the
\* result is 0x7FFFFFFF with the sign of y.
C25_TanIsDivFixOfRotation ==
    op = "Tan" /\ pc # "idle"
        => LET v == RotatedUnit(args[1])
           IN  /\ pc = "done"
               /\ ret = PVG_FT_DivFix(v[2], v[1])
               /\ Sar(Add32(v[1], 128), 8) = PVG_FT_Cos(args[1])
               /\ v[1] = 0
                      => ret = IF v[2] < 0 THEN -INT_MAX ELSE INT_MAX

C25_Witness ==
    /\ Returned("Tan")
    /\ args = <<PVG_FT_ANGLE_PI2>>
    /\ build = "trap"
    /\ RotatedUnit(args[1]) = <<-2, 16777216>>
    /\ ret = 0

\* C26: for every vector with both components non-zero, the length
\* PVG_FT_Vector_Polarize stores is PVG_FT_Vector_Length of the vector and
\* the angle it stores is PVG_FT_Atan2(x, y).
C26_PolarizeIsLengthAndAtan2 ==
    Returned("Vector_Polarize") /\ args[1] # 0 /\ args[2] # 0
        => /\ ret[1] = PVG_FT_Vector_Length(<<args[1], args[2]>>)
           /\ ret[2] = PVG_FT_Atan2(args[1], args[2])

\* C27: PVG_FT_Vector_Length and PVG_FT_Vector_Polarize never modify the
\* vector passed to them; PVG_FT_Vector_Rotate leaves the zero vector as
\* it is for every angle, so PVG_FT_Vector_From_Polar(0, angle) yields
\* (0, 0); PVG_FT_Vector_Polarize on the zero vector writes neither *length
\* nor *angle.  (PVG_FT_Atan2 takes its two coordinates by value.)
C27_VectorsLeftAlone ==
    \A t \in Threads :
        LET s == thread[t]
        IN  /\ s.op = "Vector_Length" => s.vec = s.args
            /\ s.op = "Vector_Polarize" => s.vec = <<s.args[1], s.args[2]>>
            /\ s.op = "Vector_Rotate" /\ s.args[1] = 0 /\ s.args[2] = 0
                   => s.pc = "done" /\ s.vec = <<0, 0>>
            /\ s.op = "Vector_From_Polar" /\ s.args[1] = 0
                   => s.pc = "done" /\ s.vec = <<0, 0>>
            /\ s.op = "Vector_Polarize" /\ s.args[1] = 0 /\ s.args[2] = 0
                   => s.pc = "done" /\ s.out = <<s.args[3], s.args[4]>>

C27_Witness ==
    /\ thread["t1"].pc = "done"
    /\ thread["t1"].op = "Vector_Polarize"
    /\ thread["t1"].vec = <<7, -7>>
    /\ thread["t1"].out = <<9, -PVG_FT_ANGLE_PI4>>

\* The loop of ft_trig_pseudo_rotate in the call of thread t is over.
RotationsDone(t) ==
    thread[t].pc = "rotate_loop" /\ ~LoopContinues(thread[t].i)

\* C28: for every target angle, after the quarter-turn reduction and all
\* the pseudorotations of ft_trig_pseudo_rotate the angle that remains to
\* be turned has magnitude at most 1, the last table entry.
C28_RotationConverges ==
    \A t \in Threads :
        RotationsDone(t)
            => /\ Abs(thread[t].theta) <= 1
               /\ Abs(thread[t].theta) <= arctan_table[Len(arctan_table)]

C28_Witness ==
    /\ RotationsDone("t1")
    /\ thread["t1"].args[3] = -PVG_FT_ANGLE_PI4 + 1
    /\ thread["t1"].theta = -1

\* C30: for every vector whose components are signed 32-bit values other
\* than -2^31, components close to 2^31 in magnitude included,
\* PVG_FT_Vector_Length returns a non-negative value.
C30_LengthNonNegative ==
    Returned("Vector_Length") /\ args[1] # INT_MIN /\ args[2] # INT_MIN
        => ret >= 0

\* Both calls of the caller have returned.
BothReturned ==
    /\ thread["t1"].pc = "done"
    /\ thread["t2"].pc = "done"
    /\ thread["t2"].op = thread["t1"].op
    /\ thread["t2"].args[1] = thread["t1"].args[1] + PVG_FT_ANGLE_2PI

\* C29: PVG_FT_Cos and PVG_FT_Sin are exactly periodic with period
\* 360 * 2^16: for every angle t such that t and t + 360 * 2^16 are both
\* representable, the odd multiples of 45 * 2^16 included, the operation
\* returns at t + 360 * 2^16 what it returns at t, bit for bit.
C29_CosSinPeriodic ==
    BothReturned => thread["t2"].ret = thread["t1"].ret

====
